---- MODULE Spec2Model ----
(***************************************************************************)
(* College-HQ: the requirement-pattern classifier of the degree            *)
(* requirements scraper, the profile request handler and the scraper run   *)
(* loops, modelled from the Python sources.                                *)
(***************************************************************************)
EXTENDS Integers, Sequences, FiniteSets, TLC

VARIABLES
    text,       \* detector: the requirement text, a sequence of words
    result,     \* detector: the dict detect_requirement_type returned
    dpc,        \* detector: "ready" before the call, "done" after it
    users,      \* profile handler: the users table, item or NoItem per userId
    event,      \* profile handler: the event of the last invocation
    env,        \* profile handler: key-set endpoint and store behaviour met
    response,   \* profile handler: what the last invocation gave back
    access,     \* profile handler: store calls made by the last invocation
    hpc,        \* profile handler: "idle", "invoked" or "responded"
    scraper,    \* scraper run: which scraper runs
    requested,  \* scraper run: the departments or majors asked for
    queue,      \* scraper run: the items the loop has still to visit
    successful, \* scraper run: results['successful_...']
    failed,     \* scraper run: results['failed_...']
    trace,      \* scraper run: the fetches and two-second sleeps, in order
    records,    \* scraper run: the records collected for saving
    pending,    \* scraper run: the records the save loop has still to visit
    puts,       \* scraper run: the put_item calls made, with their outcome
    counts,     \* scraper run: success_count and error_count of the save
    table,      \* scraper run: the items of the store table
    pass,       \* scraper run: 1 in the first save of the records, 2 in a repeat
    firstKeys,  \* scraper run: the keys the table held when the first save ended
    spc,        \* scraper run: "start", "scrape", "save" or "done"
    utable,     \* migration: the users table keyed by user_id
    plan,       \* migration: the entries of migration_plan not yet executed
    answer,     \* migration: what the operator typed at the prompt
    lookup_failed,      \* migration: the emails whose Cognito lookup raised
    failed_migrations,  \* migration: the entries whose put raised
    before,     \* migration: the users table as the run's scan found it
    deletes,    \* cleanup: the keys still to delete
    cstatus,    \* Cognito handler: statusCode of the last response
    runs,       \* migration: the runs and requests started so far
    mpc,        \* migration: position of the script
    document,   \* flowchart parser: the downloaded content and the configuration
    flowchart,  \* flowchart parser: what parse_flowchart returned
    ppc,        \* flowchart parser: "ready" or "done"
    creqs,      \* Cognito handler: the concurrent requests and where each stands
    block,      \* catalog converters: the course block both scrapers are given
    items       \* catalog converters: the store item each scraper made of it

dvars == <<text, result, dpc>>

hvars == <<users, event, env, response, access, hpc>>

svars ==
    <<scraper, requested, queue, successful, failed, trace, records, pending,
      puts, counts, table, pass, firstKeys, spc>>

mvars ==
    <<utable, plan, answer, lookup_failed, failed_migrations, before, deletes,
      cstatus, runs, mpc>>

pvars == <<document, flowchart, ppc>>

cvars == <<creqs, block, items>>

vars ==
    <<text, result, dpc, users, event, env, response, access, hpc,
      scraper, requested, queue, successful, failed, trace, records, pending,
      puts, counts, table, pass, firstKeys, spc,
      utable, plan, answer, lookup_failed, failed_migrations, before, deletes,
      cstatus, runs, mpc, document, flowchart, ppc, creqs, block, items>>

(***************************************************************************)
(* Bounds of the model.                                                    *)
(***************************************************************************)
MaxLen == 4          \* longest requirement text, in words
MaxItems == 2        \* most departments or majors one run is asked for

(***************************************************************************)
(* Absent dict key / Python None.                                          *)
(***************************************************************************)
None == -1

(***************************************************************************)
(* Characters and words.  A text is its whitespace-separated words; a word *)
(* is the sequence of its characters, so that prefix, suffix and substring *)
(* matches of the regular expressions are computed, not assumed.           *)
(***************************************************************************)
Chars(t) ==
    CASE t = "3"         -> <<"3">>
      [] t = "of"        -> <<"o", "f">>
      [] t = "One"       -> <<"O", "n", "e">>
      [] t = "the"       -> <<"t", "h", "e">>
      [] t = "following" -> <<"f", "o", "l", "l", "o", "w", "i", "n", "g">>
      [] t = "or"        -> <<"o", "r">>
      [] t = "I,II,III"  -> <<"I", ",", "I", "I", ",", "I", "I", "I">>
      [] t = "electives" -> <<"e", "l", "e", "c", "t", "i", "v", "e", "s">>
      [] t = "units"     -> <<"u", "n", "i", "t", "s">>
      [] t = "12-16"     -> <<"1", "2", "-", "1", "6">>

\* the words requirement texts are made of
Vocab ==
    {"3", "of", "One", "the", "following", "or", "I,II,III", "electives",
     "units", "12-16"}

Texts == UNION {[1..n -> Vocab] : n \in 0..MaxLen}

\* the literal words of the patterns, as characters
W ==
    [choose |-> <<"c", "h", "o", "o", "s", "e">>,
     select |-> <<"s", "e", "l", "e", "c", "t">>,
     take |-> <<"t", "a", "k", "e">>,
     from |-> <<"f", "r", "o", "m">>,
     of |-> <<"o", "f">>,
     course |-> <<"c", "o", "u", "r", "s", "e">>,
     courses |-> <<"c", "o", "u", "r", "s", "e", "s">>,
     the |-> <<"t", "h", "e">>,
     following |-> <<"f", "o", "l", "l", "o", "w", "i", "n", "g">>,
     one |-> <<"o", "n", "e">>,
     any |-> <<"a", "n", "y">>,
     or |-> <<"o", "r">>,
     OR |-> <<"O", "R">>,
     either |-> <<"e", "i", "t", "h", "e", "r">>,
     alternative |-> <<"a", "l", "t", "e", "r", "n", "a", "t", "i", "v", "e">>,
     in |-> <<"i", "n">>,
     lieu |-> <<"l", "i", "e", "u">>,
     instead |-> <<"i", "n", "s", "t", "e", "a", "d">>,
     sequence |-> <<"s", "e", "q", "u", "e", "n", "c", "e">>,
     series |-> <<"s", "e", "r", "i", "e", "s">>,
     must |-> <<"m", "u", "s", "t">>,
     be |-> <<"b", "e">>,
     taken |-> <<"t", "a", "k", "e", "n">>,
     order |-> <<"o", "r", "d", "e", "r">>,
     prerequisite |-> <<"p", "r", "e", "r", "e", "q", "u", "i", "s", "i", "t", "e">>,
     chain |-> <<"c", "h", "a", "i", "n">>,
     upper |-> <<"u", "p", "p", "e", "r">>,
     lower |-> <<"l", "o", "w", "e", "r">>,
     division |-> <<"d", "i", "v", "i", "s", "i", "o", "n">>,
     level |-> <<"l", "e", "v", "e", "l">>,
     above |-> <<"a", "b", "o", "v", "e">>,
     and |-> <<"a", "n", "d">>,
     plus |-> <<"+">>,
     elective |-> <<"e", "l", "e", "c", "t", "i", "v", "e">>,
     approved |-> <<"a", "p", "p", "r", "o", "v", "e", "d">>,
     unit |-> <<"u", "n", "i", "t">>,
     units |-> <<"u", "n", "i", "t", "s">>,
     minimum |-> <<"m", "i", "n", "i", "m", "u", "m">>,
     at |-> <<"a", "t">>,
     least |-> <<"l", "e", "a", "s", "t">>]

UpperLetters ==
    {"A", "B", "C", "D", "E", "F", "G", "H", "I", "J", "K", "L", "M",
     "N", "O", "P", "Q", "R", "S", "T", "U", "V", "W", "X", "Y", "Z"}

LowerOf ==
    [c \in UpperLetters |->
        CASE c = "A" -> "a" [] c = "B" -> "b" [] c = "C" -> "c" [] c = "D" -> "d"
          [] c = "E" -> "e" [] c = "F" -> "f" [] c = "G" -> "g" [] c = "H" -> "h"
          [] c = "I" -> "i" [] c = "J" -> "j" [] c = "K" -> "k" [] c = "L" -> "l"
          [] c = "M" -> "m" [] c = "N" -> "n" [] c = "O" -> "o" [] c = "P" -> "p"
          [] c = "Q" -> "q" [] c = "R" -> "r" [] c = "S" -> "s" [] c = "T" -> "t"
          [] c = "U" -> "u" [] c = "V" -> "v" [] c = "W" -> "w" [] c = "X" -> "x"
          [] c = "Y" -> "y" [] c = "Z" -> "z"]

\* str.lower() on one word and on a text
LowerWord(w) ==
    LET f == [i \in DOMAIN w |-> IF w[i] \in UpperLetters THEN LowerOf[w[i]] ELSE w[i]]
    IN  SubSeq(f, 1, Len(w))

Lower(s) == SubSeq([i \in DOMAIN s |-> LowerWord(s[i])], 1, Len(s))

\* the text as the words' characters
TextChars(t) == SubSeq([i \in DOMAIN t |-> Chars(t[i])], 1, Len(t))

Digits == {"0", "1", "2", "3", "4", "5", "6", "7", "8", "9"}

DigitVal(c) ==
    CASE c = "0" -> 0 [] c = "1" -> 1 [] c = "2" -> 2 [] c = "3" -> 3 [] c = "4" -> 4
      [] c = "5" -> 5 [] c = "6" -> 6 [] c = "7" -> 7 [] c = "8" -> 8 [] c = "9" -> 9

\* int() of a string of digits
RECURSIVE IntOf(_)
IntOf(ds) ==
    IF ds = <<>> THEN 0
    ELSE 10 * IntOf(SubSeq(ds, 1, Len(ds) - 1)) + DigitVal(ds[Len(ds)])

IsPrefix(w, t) == Len(w) <= Len(t) /\ SubSeq(t, 1, Len(w)) = w
IsSuffix(w, t) == Len(w) <= Len(t) /\ SubSeq(t, Len(t) - Len(w) + 1, Len(t)) = w
IsInfix(w, t) == \E k \in 0..(Len(t) - Len(w)) : SubSeq(t, k + 1, k + Len(w)) = w

AllDigits(t) == Len(t) > 0 /\ \A i \in DOMAIN t : t[i] \in Digits

\* length of the run of digits that ends word t, from position e downwards
DigitRunBefore(t, e) ==
    CHOOSE k \in 0..e :
        /\ \A j \in (e - k + 1)..e : t[j] \in Digits
        /\ (k < e => t[e - k] \notin Digits)

TrailDigits(t) == SubSeq(t, Len(t) - DigitRunBefore(t, Len(t)) + 1, Len(t))

\* the separator class of the range pattern; its other members in the source
\* are non-ASCII characters, outside the alphabet of the modelled words
RangeSep == {"-"}

\* the word ends with  digits, separator, digits
EndsWithRange(t) ==
    LET n2 == DigitRunBefore(t, Len(t))
        p  == Len(t) - n2
    IN  /\ n2 > 0
        /\ p >= 2
        /\ t[p] \in RangeSep
        /\ DigitRunBefore(t, p - 1) > 0

RangeLow(t) ==
    LET n2 == DigitRunBefore(t, Len(t))
        p  == Len(t) - n2
        n1 == DigitRunBefore(t, p - 1)
    IN  SubSeq(t, p - n1, p - 1)

(***************************************************************************)
(* Regular expressions over a text of words.  Words hold no whitespace, so *)
(* a pattern with \s+ between its parts matches word by word: its first    *)
(* part against the end of a word, its middle parts against whole words,   *)
(* its last part against the start of a word.  A pattern is a set of such  *)
(* forms (one form unless it has optional whitespace) and cap, the part    *)
(* that holds capture group 1 (0: the pattern has no group).               *)
(***************************************************************************)
A(k, ws) == [k |-> k, ws |-> ws]

Pat(name, forms, cap) == [name |-> name, forms |-> forms, cap |-> cap, gap |-> FALSE]

AtomOk(a, t) ==
    CASE a.k = "ends"     -> \E w \in a.ws : IsSuffix(w, t)
      [] a.k = "is"       -> t \in a.ws
      [] a.k = "starts"   -> \E w \in a.ws : IsPrefix(w, t)
      [] a.k = "has"      -> \E w \in a.ws : IsInfix(w, t)
      [] a.k = "num"      -> AllDigits(t)
      [] a.k = "endnum"   -> DigitRunBefore(t, Len(t)) > 0
      [] a.k = "end3"     -> DigitRunBefore(t, Len(t)) >= 3
      [] a.k = "end3w"    -> \E w \in a.ws :
                                /\ IsSuffix(w, t)
                                /\ DigitRunBefore(t, Len(t) - Len(w)) >= 3
      [] a.k = "endrange" -> EndsWithRange(t)
      [] a.k = "upper24"  -> Len(t) \in 2..4 /\ \A i \in DOMAIN t : t[i] \in UpperLetters
      [] a.k = "alpha24"  -> Len(t) \in 2..4 /\ \A i \in DOMAIN t :
                                t[i] \in UpperLetters \cup {LowerOf[c] : c \in UpperLetters}

FormAt(f, s, i) ==
    /\ i + Len(f) - 1 <= Len(s)
    /\ \A j \in DOMAIN f : AtomOk(f[j], s[i + j - 1])

\* either.*?or : the first word, and later in the text the second
GapMatch(p, s) ==
    \E i \in DOMAIN s : \E j \in DOMAIN s :
        /\ i <= j
        /\ \E a \in 1..(Len(s[i]) - Len(p.first) + 1) :
           \E b \in 1..(Len(s[j]) - Len(p.second) + 1) :
              /\ SubSeq(s[i], a, a + Len(p.first) - 1) = p.first
              /\ SubSeq(s[j], b, b + Len(p.second) - 1) = p.second
              /\ (i = j => b >= a + Len(p.first))

\* the word positions where re.search(pattern, s) can start
MatchStarts(p, s) == {i \in DOMAIN s : \E f \in p.forms : FormAt(f, s, i)}

\* re.search(pattern, s) is not None
Search(p, s) == IF p.gap THEN GapMatch(p, s) ELSE MatchStarts(p, s) # {}

Min(S) == CHOOSE x \in S : \A y \in S : x <= y

\* match.group(1) of the leftmost match, as characters; <<>> when the pattern
\* has no group 1 (Python raises IndexError)
Group1(p, s) ==
    LET i == Min(MatchStarts(p, s))
        f == CHOOSE g \in p.forms : FormAt(g, s, i)
        t == s[i + p.cap - 1]
    IN  IF p.cap = 0 THEN <<>>
        ELSE CASE f[p.cap].k = "num"      -> t
               [] f[p.cap].k = "endnum"   -> TrailDigits(t)
               [] f[p.cap].k = "endrange" -> RangeLow(t)

choice_patterns ==
    << Pat("choice1", {<<A("ends", {W.choose}), A("num", {}), A("starts", {W.from, W.of})>>}, 2),
       Pat("choice2", {<<A("ends", {W.select}), A("num", {}), A("starts", {W.from, W.of})>>}, 2),
       Pat("choice3", {<<A("ends", {W.take}), A("num", {}), A("starts", {W.from, W.of})>>}, 2),
       Pat("choice4", {<<A("endnum", {}), A("is", {W.course, W.courses}), A("starts", {W.from})>>}, 1),
       Pat("choice5", {<<A("endnum", {}), A("is", {W.of}), A("is", {W.the}), A("starts", {W.following})>>}, 1),
       Pat("choice6", {<<A("ends", {W.one}), A("is", {W.of}), A("is", {W.the}), A("starts", {W.following})>>}, 0),
       Pat("choice7", {<<A("ends", {W.any}), A("num", {}), A("starts", {W.course})>>}, 2) >>

alternative_patterns ==
    << Pat("alt1", {<<A("has", {W.or, W.OR})>>}, 0),
       [name |-> "alt2", gap |-> TRUE, first |-> W.either, second |-> W.or, cap |-> 0],
       Pat("alt3", {<<A("has", {W.alternative})>>}, 0),
       Pat("alt4", {<<A("ends", {W.in}), A("is", {W.lieu}), A("starts", {W.of})>>}, 0),
       Pat("alt5", {<<A("ends", {W.instead}), A("starts", {W.of})>>}, 0) >>

\* a, b, c with optional whitespace after each comma
CommaList(a, b, c) ==
    { <<A("has", {a \o b \o c})>>,
      <<A("ends", {a}), A("is", {b}), A("starts", {c})>>,
      <<A("ends", {a \o b}), A("starts", {c})>>,
      <<A("ends", {a}), A("starts", {b \o c})>> }

sequence_patterns ==
    << Pat("seq1", {<<A("has", {W.sequence})>>}, 0),
       Pat("seq2", {<<A("has", {W.series})>>}, 0),
       Pat("seq3", {<<A("ends", {W.must}), A("is", {W.be}), A("is", {W.taken}),
                      A("is", {W.in}), A("starts", {W.order})>>}, 0),
       Pat("seq4", {<<A("ends", {W.prerequisite}), A("starts", {W.chain})>>}, 0),
       Pat("seq5", CommaList(<<"I", ",">>, <<"I", "I", ",">>, <<"I", "I", "I">>)
                   \cup CommaList(<<"1", ",">>, <<"2", ",">>, <<"3">>), 0) >>

\* (\d{3})\s*level\s+(?:or\s+above|and\s+above|\+)
LevelForms ==
    LET heads == { <<A("end3w", {W.level})>>, <<A("end3", {}), A("is", {W.level})>> }
        tails == { <<A("is", {W.or}), A("starts", {W.above})>>,
                   <<A("is", {W.and}), A("starts", {W.above})>>,
                   <<A("starts", {W.plus})>> }
    IN  {h \o t : h \in heads, t \in tails}

category_patterns ==
    << Pat("cat1", {<<A("ends", {W.upper, W.lower}), A("starts", {W.division})>>}, 0),
       Pat("cat2", LevelForms, 1),
       Pat("cat3", {<<A("ends", {W.any}), A("upper24", {}), A("starts", {W.course})>>}, 2),
       Pat("cat4", {<<A("has", {W.elective})>>}, 0),
       Pat("cat5", {<<A("ends", {W.approved}), A("starts", {W.course, W.elective})>>}, 0) >>

units_patterns ==
    << Pat("units1", {<<A("endnum", {}), A("is", {W.unit, W.units}), A("starts", {W.from, W.of, W.in})>>}, 1),
       Pat("units2", {<<A("ends", {W.minimum}), A("is", {W.of}), A("num", {}), A("starts", {W.unit})>>}, 3),
       Pat("units3", {<<A("ends", {W.at}), A("is", {W.least}), A("num", {}), A("starts", {W.unit})>>}, 3),
       Pat("units4", {<<A("endrange", {}), A("starts", {W.unit})>>}, 1) >>

\* the pattern compiled with re.IGNORECASE: letters match in either case
IgnoreCase(p) ==
    IF p.gap
    THEN [p EXCEPT !.first = LowerWord(@), !.second = LowerWord(@)]
    ELSE [p EXCEPT !.forms =
            { [j \in DOMAIN f |->
                  A(IF f[j].k = "upper24" THEN "alpha24" ELSE f[j].k,
                    {LowerWord(w) : w \in f[j].ws})] : f \in @ }]

\* re.search(pattern, s, re.IGNORECASE) is not None
ISearch(p, s) == Search(IgnoreCase(p), Lower(s))

\* the patterns of a list that match s, by index
Matching(pats, s) == {k \in DOMAIN pats : Search(pats[k], s)}

Res(type, courses, selection, units, restriction, pattern) ==
    [type |-> type, courses_required |-> courses, selection_count |-> selection,
     units_required |-> units, category_restriction |-> restriction,
     detected_pattern |-> pattern]

\* variant: a count of one is already an exact choice
ChoiceTypeFromOne(count) == IF count >= 1 THEN "choose_exact" ELSE "choose_minimum"

\* "choose_exact" if count > 1 else "choose_minimum"
ChoiceType(count) == IF count > 1 THEN "choose_exact" ELSE "choose_minimum"

\* int(match.group(1)) if match.group(1).isdigit() else 1, and 1 on IndexError
ChoiceCount(p, s) ==
    LET g == Group1(p, s)
    IN  IF p.cap = 0 THEN 1
        ELSE IF AllDigits(g) THEN IntOf(g) ELSE 1

UnitsOf(p, s) == IntOf(Group1(p, s))

\* the lower-cased text the detector searches
SearchedText(t) == Lower(TextChars(t))

detect_requirement_type(t) ==
    LET text_lower == SearchedText(t)
        ch  == Matching(choice_patterns, text_lower)
        cat == Matching(category_patterns, text_lower)
        un  == Matching(units_patterns, text_lower)
    IN  IF ch # {}
        THEN LET p     == choice_patterns[Min(ch)]
                 count == ChoiceCount(p, text_lower)
             IN  Res(ChoiceType(count), count, count, None, None, p.name)
        ELSE IF Matching(alternative_patterns, text_lower) # {}
        THEN Res("alternative", 1, None, None, None, "alternative")
        ELSE IF Matching(sequence_patterns, text_lower) # {}
        THEN Res("sequence", None, None, None, None, "sequence")
        ELSE IF cat # {}
        THEN Res("category_based", None, None, None, category_patterns[Min(cat)].name, "category")
        ELSE IF un # {}
        THEN Res("choose_units", None, None, UnitsOf(units_patterns[Min(un)], text_lower),
                 None, "units")
        ELSE Res("required_all", None, None, None, None, "default")

NoResult == Res("none", None, None, None, None, "none")

(***************************************************************************)
(* The profile handler (lambda-functions/user-profile-handler.py).         *)
(* Requests: the Authorization header, method, path and body of the event. *)
(***************************************************************************)
Users == {"u1", "u2"}

\* key ids: "k1" is published by the identity provider, "k9" is not
Kids == {"k1", "k9"}

NoToken == [form |-> "none", kid |-> "none", valid |-> FALSE, sub |-> "none"]

\* a token jwt.get_unverified_header cannot decode
MalformedToken == [form |-> "malformed", kid |-> "none", valid |-> FALSE, sub |-> "none"]

\* valid: signature, expiry, audience and issuer all pass jwt.decode
Tokens ==
    {MalformedToken} \cup [form : {"jwt"}, kid : Kids, valid : BOOLEAN, sub : Users]

AuthHeaders ==
    {[scheme |-> "none", token |-> NoToken], [scheme |-> "Basic", token |-> NoToken]}
        \cup {[scheme |-> "Bearer", token |-> tok] : tok \in Tokens}

Methods == {"GET", "PUT", "POST", "DELETE"}

Paths == {"/api/users/me", "/api/users/profile", "/v2/api/users/me/courses", "/api/courses"}

\* '/api/users/me' in path
HasUsersMe(path) == path \in {"/api/users/me", "/v2/api/users/me/courses"}

\* '/api/users/profile' in path
HasUsersProfile(path) == path = "/api/users/profile"

Absent == "absent"

\* event['body']: the key missing, None, text that is not JSON, or an object
BodyMissing == [kind |-> "missing", major |-> Absent, email |-> Absent]
BodyNone    == [kind |-> "none", major |-> Absent, email |-> Absent]
BodyNotJson == [kind |-> "notjson", major |-> Absent, email |-> Absent]

JsonBodies == [kind : {"json"}, major : {Absent, "CS"}, email : {Absent, "body@x"}]

Bodies == {BodyMissing, BodyNone, BodyNotJson} \cup JsonBodies

Events == [headers : AuthHeaders, httpMethod : Methods, path : Paths, body : Bodies]

NoEvent ==
    [headers |-> [scheme |-> "none", token |-> NoToken], httpMethod |-> "none",
     path |-> "none", body |-> BodyMissing]

\* the store calls of one invocation that may be the one to fail
MaxStoreCalls == 2

\* jwks: the key-set fetch answers ("ok") or raises ("error");
\* failAt: which store call of the invocation raises ClientError, 0 for none
Envs == [jwks : {"ok", "error"}, failAt : 0..MaxStoreCalls]

NoEnv == [jwks |-> "ok", failAt |-> 0]

\* the keys the identity provider publishes
JwksKeys == {"k1"}

\* the claims of a verified token
Payload(tok) == [ok |-> TRUE, sub |-> tok.sub, email |-> "idp@x", given_name |-> "G"]

NoPayload == [ok |-> FALSE, sub |-> "none", email |-> "none", given_name |-> "none"]

\* variant: the claims are read from any decodable token, verified or not
extract_unverified(ev, e) ==
    IF ev.headers.scheme = "Bearer" /\ ev.headers.token.form = "jwt"
    THEN Payload(ev.headers.token)
    ELSE NoPayload

\* extract_user_from_token: the payload, or None (ok = FALSE) when the header
\* is missing or not 'Bearer ...', the key set cannot be fetched, the token
\* cannot be decoded, its kid is not in the key set, or verification fails
extract_user_from_token(ev, e) ==
    LET auth_header == ev.headers
        token       == auth_header.token
    IN  IF auth_header.scheme # "Bearer" THEN NoPayload
        ELSE IF e.jwks = "error" THEN NoPayload
        ELSE IF token.form # "jwt" THEN NoPayload
        ELSE IF token.kid \notin JwksKeys THEN NoPayload
        ELSE IF ~token.valid THEN NoPayload
        ELSE Payload(token)

(***************************************************************************)
(* The users table.  Numbers come back from the table as Decimal.          *)
(***************************************************************************)
NoItem == [userId |-> "none"]

\* a completed course as the table returns it: its units are a Decimal
CourseTaken == [code |-> "CSC101", units |-> 4]

Items(u) ==
    [userId : {u}, firstName : {"F"}, email : {"stored@x"}, major : {"", "CS"},
     gpa : {3}, completedCourses : {<<>>, <<CourseTaken>>},
     createdAt : {"r0"}, updatedAt : {"r0"}]

Stores == {st \in [Users -> UNION {Items(u) \cup {NoItem} : u \in Users}] :
              \A u \in Users : st[u] = NoItem \/ st[u].userId = u}

EmptyStore == [u \in Users |-> NoItem]

\* the table and the calls made on it so far in this invocation
Store(us, n, reads, writes) == [users |-> us, n |-> n, reads |-> reads, writes |-> writes]

\* users_table.get_item(Key={'userId': user_id}); ok = FALSE: ClientError
GetItem(st, user_id, e) ==
    [ok   |-> st.n + 1 # e.failAt,
     item |-> st.users[user_id],
     st   |-> Store(st.users, st.n + 1, st.reads + 1, st.writes)]

\* users_table.put_item(Item=item); nothing is written when it raises
PutItem(st, user_id, item, e) ==
    LET ok == st.n + 1 # e.failAt
    IN  [ok |-> ok,
         st |-> Store(IF ok THEN [st.users EXCEPT ![user_id] = item] ELSE st.users,
                      st.n + 1, st.reads, st.writes + 1)]

\* the body a response or a request carries: the JSON text of a value
Dumps(value) == [json |-> value]

\* json.dumps raises TypeError on a Decimal
Serializable(profile_data) ==
    \A i \in 1..Len(profile_data.completedCourses) : FALSE

\* what a function gives back: a response, or an exception it lets through
Return(st, status_code, body) ==
    [kind |-> "return", statusCode |-> status_code, body |-> Dumps(body),
     exc |-> "none", st |-> st]

Raise(st, exc) ==
    [kind |-> "raise", statusCode |-> 0, body |-> Dumps([error |-> exc]),
     exc |-> exc, st |-> st]

Error(message) == [error |-> message]

\* create_response: the body is json.dumps(body), which may raise
create_response(st, status_code, body) ==
    IF "completedCourses" \in DOMAIN body /\ ~Serializable(body)
    THEN Raise(st, "TypeError")
    ELSE Return(st, status_code, body)

\* the name `context` is a parameter of lambda_handler only: the functions
\* it calls have no binding for it
ContextBound == FALSE

\* context.aws_request_id of the invocation
RequestId == "r1"

(***************************************************************************)
(* The three operations and the entry point.                               *)
(***************************************************************************)
\* GET /api/users/me
get_user_profile(st, user_id, user_info, e) ==
    LET got == GetItem(st, user_id, e)
        profile == got.item
        profile_data ==
            [firstName |-> profile.firstName, email |-> profile.email,
             major |-> profile.major, gpa |-> profile.gpa,
             completedCourses |-> profile.completedCourses]
    IN  IF ~got.ok THEN create_response(got.st, 500, Error("Database error"))
        ELSE IF profile = NoItem
        THEN create_response(got.st, 404, Error("Profile not found"))
        ELSE create_response(got.st, 200, profile_data)

\* the item create_user_profile builds from the token's claims
InitialProfile(user_id, user_info) ==
    [userId |-> user_id, firstName |-> user_info.given_name,
     email |-> user_info.email, major |-> "", gpa |-> 0,
     completedCourses |-> <<>>, createdAt |-> RequestId, updatedAt |-> RequestId]

\* POST /api/users/profile
create_user_profile(st, body, user_id, user_info, e) ==
    IF body.kind = "none" THEN Raise(st, "TypeError")
    ELSE IF body.kind = "notjson"
    THEN create_response(st, 400, Error("Invalid JSON in request body"))
    ELSE IF ~ContextBound THEN Raise(st, "NameError")
    ELSE LET profile_data == InitialProfile(user_id, user_info)
             existing == GetItem(st, user_id, e)
             put == PutItem(existing.st, user_id, profile_data, e)
         IN  IF ~existing.ok
             THEN create_response(existing.st, 500, Error("Database error"))
             ELSE IF existing.item # NoItem
             THEN create_response(existing.st, 409, Error("Profile already exists"))
             ELSE IF ~put.ok
             THEN create_response(put.st, 500, Error("Database error"))
             ELSE create_response(put.st, 201, profile_data)

\* users_table.update_item: SET updatedAt and the updatable fields of the body
UpdateItem(st, user_id, body, e) ==
    LET ok  == st.n + 1 # e.failAt
        old == st.users[user_id]
        new == [old EXCEPT !.updatedAt = RequestId,
                           !.major = IF body.major # Absent THEN body.major ELSE @]
    IN  [ok |-> ok,
         st |-> Store(IF ok THEN [st.users EXCEPT ![user_id] = new] ELSE st.users,
                      st.n + 1, st.reads, st.writes + 1)]

\* PUT /api/users/me
update_user_profile(st, body, user_id, user_info, e) ==
    IF body.kind = "none" THEN Raise(st, "TypeError")
    ELSE IF body.kind = "notjson"
    THEN create_response(st, 400, Error("Invalid JSON in request body"))
    ELSE LET got == GetItem(st, user_id, e)
             create_event == [kind |-> "json", major |-> Absent, email |-> user_info.email]
             create_result ==
                 IF got.item = NoItem
                 THEN create_user_profile(got.st, create_event, user_id, user_info, e)
                 ELSE Return(got.st, 201, Error("none"))
             upd == UpdateItem(create_result.st, user_id, body, e)
         IN  IF ~got.ok THEN create_response(got.st, 500, Error("Database error"))
             ELSE IF create_result.kind = "raise" \/ create_result.statusCode # 201
             THEN create_result
             ELSE IF ~ContextBound THEN Raise(create_result.st, "NameError")
             ELSE IF ~upd.ok
             THEN create_response(upd.st, 500, Error("Database error"))
             ELSE get_user_profile(upd.st, user_id, user_info, e)

\* variant: an exception of the operation leaves the handler
LetThrough(out) == out

\* except Exception: whatever the operation raised becomes a 500 response
CatchAll(out) ==
    IF out.kind = "raise"
    THEN create_response(out.st, 500, Error("Internal server error"))
    ELSE out

\* lambda_handler: authentication, then the route, all inside one try
lambda_handler(ev, us, e) ==
    LET st0         == Store(us, 0, 0, 0)
        http_method == ev.httpMethod
        path        == ev.path
        user_info   == extract_user_from_token(ev, e)
        user_id     == user_info.sub
        routed ==
            IF http_method = "GET" /\ HasUsersMe(path)
            THEN get_user_profile(st0, user_id, user_info, e)
            ELSE IF http_method = "PUT" /\ HasUsersMe(path)
            THEN update_user_profile(st0, ev.body, user_id, user_info, e)
            ELSE IF http_method = "POST" /\ HasUsersProfile(path)
            THEN create_user_profile(st0, ev.body, user_id, user_info, e)
            ELSE create_response(st0, 404, Error("Endpoint not found"))
    IN  IF ~user_info.ok THEN create_response(st0, 401, Error("Unauthorized"))
        ELSE CatchAll(routed)

NoResponse == [kind |-> "none", statusCode |-> 0, body |-> Dumps(Error("none"))]

NoAccess == [reads |-> 0, writes |-> 0]

(***************************************************************************)
(* The scraper runs: calpoly_scraper.py and coursecatalog_scraper.py       *)
(* (scrape_all_departments), degreerequirements_scraper.py and             *)
(* flowchart_scraper.py (scrape_university).                               *)
(***************************************************************************)
Scrapers == {"calpoly", "coursecatalog", "degree", "flowchart"}

IsCatalog(sc) == sc \in {"calpoly", "coursecatalog"}

\* the keys of self.departments / get_degree_urls() / get_flowchart_urls(),
\* in dict order
TableOrder == <<"A", "B">>

\* names a run may be asked for; "Z" is not a key of the table
Names == {"A", "B", "Z"}

Range(f) == {f[i] : i \in DOMAIN f}

\* the lists a caller passes, as typed (a name may come twice);
\* given = FALSE is None
Requests ==
    {[given |-> FALSE, list |-> <<>>]} \cup
    {[given |-> TRUE, list |-> l] : l \in UNION {[1..n -> Names] : n \in 0..MaxItems}}

\* if departments is None: departments = list(self.departments.keys())
CatalogDepartments(req) == IF req.given THEN req.list ELSE TableOrder

\* if majors: urls = {major: url for major, url in urls.items() if major in majors}
FilteredUrls(req) ==
    IF Len(req.list) > 0
    THEN SelectSeq(TableOrder, LAMBDA major : major \in Range(req.list))
    ELSE TableOrder

\* the items the loop of the run visits
Planned(sc, req) == IF IsCatalog(sc) THEN CatalogDepartments(req) ELSE FilteredUrls(req)

SleepSeconds == 2

FetchOf(item) == [op |-> "fetch", item |-> item, secs |-> 0]

Sleep(secs) == [op |-> "sleep", item |-> "-", secs |-> secs]

\* how many course blocks a page that yields courses may hold
PageSizes == {1, 2}

\* what one visit meets: the download raises, the page yields nothing, it
\* yields n blocks of n different courses, or (repeated) two blocks of one
\* and the same course
Outcomes ==
    {[fetch |-> "error", n |-> 0, repeated |-> FALSE],
     [fetch |-> "ok", n |-> 0, repeated |-> FALSE],
     [fetch |-> "ok", n |-> 2, repeated |-> TRUE]} \cup
    {[fetch |-> "ok", n |-> k, repeated |-> FALSE] : k \in PageSizes}

\* the records one visit adds: courses of a department, or one document
RecordsOf(item, n) == [k \in 1..n |-> [item |-> item, k |-> k]]

\* extract_courses_from_page appends one course per block that parses,
\* whether or not its code was met before
PageRecords(item, out) ==
    IF out.repeated
    THEN [k \in 1..out.n |-> [item |-> item, k |-> 1]]
    ELSE RecordsOf(item, out.n)

Loop(ok, bad, tr, recs) == [successful |-> ok, failed |-> bad, trace |-> tr, records |-> recs]

\* one pass of the loop of scrape_all_departments: scrape_department gives
\* ([], False) when the page cannot be fetched or holds no course; the sleep
\* follows either way
DepartmentIteration(l, dept, out) ==
    LET success == out.fetch = "ok" /\ out.n > 0
        tr == Append(Append(l.trace, FetchOf(dept)), Sleep(SleepSeconds))
    IN  IF success
        THEN Loop(Append(l.successful, dept), l.failed, tr,
                  l.records \o PageRecords(dept, out))
        ELSE Loop(l.successful, Append(l.failed, dept), tr, l.records)

\* the same loop in coursecatalog_scraper.py
UniversalDepartmentIteration(l, dept, out) == DepartmentIteration(l, dept, out)

\* one pass of the loop of scrape_university: the sleep is the last statement
\* of the try block, the except clause only records the failure
MajorIteration(l, major, out) ==
    LET fetched == Append(l.trace, FetchOf(major))
    IN  IF out.fetch = "error"
        THEN Loop(l.successful, Append(l.failed, major), fetched, l.records)
        ELSE IF out.n > 0
        THEN Loop(Append(l.successful, major), l.failed,
                  Append(fetched, Sleep(SleepSeconds)),
                  l.records \o RecordsOf(major, 1))
        ELSE Loop(l.successful, Append(l.failed, major),
                  Append(fetched, Sleep(SleepSeconds)), l.records)

\* the same loop in flowchart_scraper.py
FlowchartIteration(l, major, out) == MajorIteration(l, major, out)

Iteration(sc, l, item, out) ==
    CASE sc = "calpoly"       -> DepartmentIteration(l, item, out)
      [] sc = "coursecatalog" -> UniversalDepartmentIteration(l, item, out)
      [] sc = "degree"        -> MajorIteration(l, item, out)
      [] sc = "flowchart"     -> FlowchartIteration(l, item, out)

\* the text of a course number
NumberText == <<"101", "102">>

\* the code of a course, "CSC 101": department, blank, number
CourseCode(rec) == <<rec.item, " ", NumberText[rec.k]>>

\* str.replace(' ', ''): the blanks go
WithoutBlanks(w) == SelectSeq(w, LAMBDA c : c # " ")

\* str.replace(' ', '_').replace('-', '_')
Underscored(w) == [i \in DOMAIN w |-> IF w[i] \in {" ", "-"} THEN "_" ELSE w[i]]

\* calpoly_scraper.py: f"calpoly_{course.code.lower().replace(' ', '')}"
CalPolyId(code) == <<"calpoly", "_">> \o WithoutBlanks(LowerWord(code))

CalPolyKey(rec) == CalPolyId(CourseCode(rec))

\* coursecatalog_scraper.py: university name and code, lower-cased, the
\* blanks of the name turned into '_' and those of the code dropped
CatalogId(code) == <<"cal_poly_san_luis_obispo", "_">> \o WithoutBlanks(LowerWord(code))

CatalogKey(rec) == CatalogId(CourseCode(rec))

\* degreerequirements_scraper.py: f"{university_key}_{major_clean}"
DegreeKey(rec) == <<"calpoly", "_">> \o Underscored(LowerWord(<<rec.item>>))

\* flowchart_scraper.py: f"{university_key}_{major_clean}_{year_clean}"
FlowchartKey(rec) ==
    <<"cal_poly", "_">> \o Underscored(LowerWord(<<rec.item>>)) \o <<"_", "2024_2025">>

\* the key under which a scraper stores a record
StoreKey(sc, rec) ==
    CASE sc = "calpoly"       -> CalPolyKey(rec)
      [] sc = "coursecatalog" -> CatalogKey(rec)
      [] sc = "degree"        -> DegreeKey(rec)
      [] sc = "flowchart"     -> FlowchartKey(rec)

\* the item a record is stored as; last_updated is the time of the save
StoreItem(sc, rec, now) == [key |-> StoreKey(sc, rec), record |-> rec, last_updated |-> now]

\* variant: the table keeps an item already stored under the key as well
TableAppend(t, item) == t \cup {item}

\* table.put_item(Item=item): the item replaces the one stored under its key
TablePut(t, item) == {x \in t : x.key # item.key} \cup {item}

Keys(t) == {x.key : x \in t}

\* what table.put_item meets
WriteOutcomes == {"ok", "ClientError", "Exception"}

Counts(success_count, error_count) ==
    [success_count |-> success_count, error_count |-> error_count]

\* variant: only a ClientError is counted as an error
CountClientErrors(c, outcome) ==
    IF outcome = "ok" THEN Counts(c.success_count + 1, c.error_count)
    ELSE IF outcome = "ClientError" THEN Counts(c.success_count, c.error_count + 1)
    ELSE c

\* success_count += 1 after put_item, error_count += 1 in both except clauses
CountWrite(c, outcome) ==
    IF outcome = "ok"
    THEN Counts(c.success_count + 1, c.error_count)
    ELSE Counts(c.success_count, c.error_count + 1)

(***************************************************************************)
(* The users table keyed by user_id, the Cognito user pool, the migration  *)
(* script and the Cognito handler that share the table.                    *)
(***************************************************************************)
OldIds == {"old1", "old2"}          \* user_id values from before Cognito
Subs == {"s1", "s2"}                \* Cognito sub values
UserIds == OldIds \cup Subs
Emails == {"a@x", "b@x", "z@x"}
NoSub == "none"

\* the user pool: the sub of the user list_users finds for an email
CognitoSub == [e \in Emails |-> CASE e = "a@x" -> "s1" [] e = "b@x" -> "s2" [] OTHER -> NoSub]

\* the email claim in the token of a sub
TokenEmail == [s \in Subs |-> IF s = "s1" THEN "a@x" ELSE "b@x"]

\* the attributes of a record other than user_id, email and migrated_from,
\* taken as a whole; "blank" is what create_user_from_cognito_info fills in
Profiles == {"p1"}

UserRecord(email, profile, from) ==
    [exists |-> TRUE, email |-> email, profile |-> profile, migrated_from |-> from]

NoRecord ==
    [exists |-> FALSE, email |-> Absent, profile |-> Absent, migrated_from |-> Absent]

NoUsers == [id \in UserIds |-> NoRecord]

\* the tables the migration may find: records under old ids only
OldTables ==
    {[id \in UserIds |-> IF id \in OldIds THEN f[id] ELSE NoRecord] :
        f \in [OldIds -> {NoRecord} \cup
                 {UserRecord(e, p, Absent) : e \in Emails \cup {Absent}, p \in Profiles}]}

\* table.scan(): every stored item
Scan(t) == {id \in UserIds : t[id].exists}

\* list_users by email, first user's sub; None when none or on ClientError
get_cognito_sub_by_email(email, raising) ==
    IF email \in raising THEN NoSub ELSE CognitoSub[email]

\* migration_plan: an entry for every scanned user with an email and a sub
MigrationPlan(t, raising) ==
    {[old_user_id |-> id,
      new_user_id |-> get_cognito_sub_by_email(t[id].email, raising),
      email |-> t[id].email,
      user_data |-> t[id]] :
        id \in {i \in Scan(t) : /\ t[i].email # Absent
                                /\ get_cognito_sub_by_email(t[i].email, raising) # NoSub}}

\* the item execute_migration puts under new_user_id
MigratedRecord(entry) == [entry.user_data EXCEPT !.migrated_from = entry.old_user_id]

\* what the operator may type
Answers ==
    {<<"y", "e", "s">>, <<"Y", "E", "S">>, <<"Y", "e", "s">>, <<"y">>,
     <<"n", "o">>, <<>>, <<"D", "E", "L", "E", "T", "E">>,
     <<"d", "e", "l", "e", "t", "e">>}

NoAnswer == <<"-">>

\* variant: every answer but no goes ahead
ConfirmedUnlessNo(confirm) == LowerWord(confirm) # <<"n", "o">>

\* if confirm.lower() != 'yes': return
MigrationConfirmed(confirm) == LowerWord(confirm) = <<"y", "e", "s">>

\* if confirm != 'DELETE': return
CleanupConfirmed(confirm) == confirm = <<"D", "E", "L", "E", "T", "E">>

\* the keys cleanup_old_records deletes: migrated_from of every item having it
CleanupKeys(t) == {t[id].migrated_from : id \in {i \in Scan(t) : t[i].migrated_from # Absent}}

\* the Cognito handler: create_user_from_cognito_info(user_info)
NewUser(sub) == UserRecord(TokenEmail[sub], "blank", Absent)

\* variant: the table resource takes any item
SerializesAll(item) == item = item

\* the table resource refuses Python floats (currentGPA and gpa are 0.0 in
\* the blank record): put_item raises TypeError
Serializes(item) == item.profile # "blank"

CognitoMethods == {"GET", "PUT", "POST", "DELETE"}

NotJson == [kind |-> "text", email |-> Absent, profile |-> Absent]

PutBodies == {NotJson} \cup [kind : {"json"}, email : {Absent, "a@x"}, profile : {Absent, "p2"}]

\* update_item under the sub: SET every key of the body, creating the item
Upsert(old, body) ==
    UserRecord(IF body.email # Absent THEN body.email ELSE old.email,
               IF body.profile # Absent THEN body.profile ELSE old.profile,
               old.migrated_from)

\* lambda_handler of the Cognito handler: the table and the status it leaves
cognito_handler(t, sub, method, body) ==
    CASE sub = NoSub -> [utable |-> t, status |-> 401]
      [] sub # NoSub /\ method = "GET" ->
            IF t[sub].exists THEN [utable |-> t, status |-> 200]
            ELSE IF Serializes(NewUser(sub))
                 THEN [utable |-> [t EXCEPT ![sub] = NewUser(sub)], status |-> 201]
                 ELSE [utable |-> t, status |-> 500]
      [] sub # NoSub /\ method = "PUT" ->
            IF body.kind # "json" THEN [utable |-> t, status |-> 400]
            ELSE [utable |-> [t EXCEPT ![sub] = Upsert(t[sub], body)], status |-> 200]
      [] sub # NoSub /\ method = "POST" -> [utable |-> t, status |-> 500]
      [] OTHER -> [utable |-> t, status |-> 405]

\* the script is not running and nothing has been asked of the handler
MigrationIdle ==
    /\ utable = NoUsers
    /\ plan = {}
    /\ answer = NoAnswer
    /\ lookup_failed = {}
    /\ failed_migrations = 0
    /\ before = NoUsers
    /\ deletes = {}
    /\ cstatus = 0
    /\ runs = 0
    /\ mpc = "off"

(***************************************************************************)
(* The flowchart parser.                                                   *)
(***************************************************************************)
ContentTypes == {"pdf", "html", "json", "xml"}

\* a downloaded content with what decides the parse: the configured content
\* type, the PDF libraries that were importable, whether the reader of the
\* type (pdfplumber.open, PdfReader, BeautifulSoup, json.loads) takes the
\* content, and whether the text extraction goes through
Documents ==
    [content_type : ContentTypes, PDFPLUMBER_SUPPORT : BOOLEAN, PDF_SUPPORT : BOOLEAN,
     readable : BOOLEAN, text_parses : BOOLEAN, major : Names]

NoDocument ==
    [content_type |-> "none", PDFPLUMBER_SUPPORT |-> FALSE, PDF_SUPPORT |-> FALSE,
     readable |-> FALSE, text_parses |-> FALSE, major |-> "none"]

\* the value None
NoFlowchart ==
    [kind |-> "None", major |-> "none", academic_year |-> "none", catalog_year |-> "none"]

\* the CourseFlowchart built from the content
ParsedFlowchart(major) ==
    [kind |-> "parsed", major |-> major, academic_year |-> "2024-2025",
     catalog_year |-> "as found"]

create_template_flowchart(major) ==
    [kind |-> "template", major |-> major, academic_year |-> "2024-2025",
     catalog_year |-> "2022-2026"]

\* except Exception: return None
parse_flowchart_text(d) ==
    IF d.text_parses THEN ParsedFlowchart(d.major) ELSE NoFlowchart

\* except Exception: return None
parse_with_pdfplumber(d) ==
    IF d.readable THEN parse_flowchart_text(d) ELSE NoFlowchart

\* except Exception: return None
parse_with_pypdf2(d) ==
    IF d.readable THEN parse_flowchart_text(d) ELSE NoFlowchart

parse_pdf_flowchart(d) ==
    IF d.PDFPLUMBER_SUPPORT THEN parse_with_pdfplumber(d)
    ELSE IF d.PDF_SUPPORT THEN parse_with_pypdf2(d)
    ELSE create_template_flowchart(d.major)

parse_html_flowchart(d) ==
    IF d.readable THEN parse_flowchart_text(d) ELSE create_template_flowchart(d.major)

parse_json_flowchart(d) ==
    IF d.readable THEN ParsedFlowchart(d.major) ELSE create_template_flowchart(d.major)

parse_flowchart(d) ==
    CASE d.content_type = "pdf" -> parse_pdf_flowchart(d)
      [] d.content_type = "html" -> parse_html_flowchart(d)
      [] d.content_type = "json" -> parse_json_flowchart(d)
      [] OTHER -> create_template_flowchart(d.major)

ParserIdle ==
    /\ document = NoDocument
    /\ flowchart = NoFlowchart
    /\ ppc = "off"

(***************************************************************************)
(* Concurrent requests of one user to the Cognito handler, each a run of   *)
(* lambda_handler whose store calls are separate steps.                    *)
(***************************************************************************)
TheUser == "s1"

\* what a request asks for; a GET carries no body
CognitoCalls == [method : {"GET"}, body : {NotJson}] \cup [method : {"PUT"}, body : PutBodies]

\* a request before its first step: GET goes to get_user_profile, PUT to
\* update_user_profile
NewCall(c) ==
    [method |-> c.method, body |-> c.body, status |-> 0,
     pc |-> IF c.method = "GET" THEN "get" ELSE "update"]

RequestsIdle == creqs = <<>>

(***************************************************************************)
(* The two catalog scrapers given one course block.                        *)
(***************************************************************************)
\* department codes both scrapers know
Depts == {<<"C", "S", "C">>, <<"M", "A", "T", "H">>, <<"S", "T", "A", "T">>,
          <<"P", "H", "Y", "S">>}

\* departments.get(department, department), the same names in both scrapers
DepartmentName(dept) ==
    CASE dept = <<"C", "S", "C">> -> "Computer Science"
      [] dept = <<"M", "A", "T", "H">> -> "Mathematics"
      [] dept = <<"S", "T", "A", "T">> -> "Statistics"
      [] OTHER -> "Physics"

\* a course block: the department of the page, the digits of the course
\* number and the digits before "units" in the title, none when it has none
Blocks ==
    [dept : Depts,
     number : {<<"1", "0", "1">>, <<"1", "4", "1">>, <<"2", "5", "0">>,
               <<"3", "1", "2">>, <<"4", "0", "0">>},
     units : {<<>>, <<"3">>, <<"4">>}]

NoBlock == [dept |-> <<>>, number |-> <<>>, units |-> <<>>]

NoItems == <<>>

\* course_code of _parse_course_block: "CSC 101"
BlockCode(b) == b.dept \o <<" ">> \o b.number

\* int(units_match.group(1)) if units_match else the default
BlockUnits(b, default_units) == IF b.units = <<>> THEN default_units ELSE IntOf(b.units)

\* int(re.search(r'(\d+)', course_code).group(1))
CourseNumber(code) == IntOf(SelectSeq(code, LAMBDA c : c \in Digits))

\* calpoly_scraper.py _determine_difficulty
calpoly_determine_difficulty(code) ==
    IF CourseNumber(code) < 200 THEN "Introductory"
    ELSE IF CourseNumber(code) < 300 THEN "Intermediate"
    ELSE "Advanced"

\* coursecatalog_scraper.py _determine_difficulty
universal_determine_difficulty(code) ==
    IF CourseNumber(code) < 200 THEN "Introductory"
    ELSE IF CourseNumber(code) < 300 THEN "Intermediate"
    ELSE IF CourseNumber(code) < 400 THEN "Advanced"
    ELSE "Graduate"

\* calpoly_scraper.py _get_required_majors(course_code)
calpoly_get_required_majors(code) ==
    IF IsPrefix(<<"C", "S", "C">>, code)
    THEN IF CourseNumber(code) < 400
         THEN <<"Computer Science", "Software Engineering">>
         ELSE <<"Computer Science">>
    ELSE IF IsPrefix(<<"M", "A", "T", "H">>, code)
    THEN IF CourseNumber(code) \in {141, 142, 143, 206, 244}
         THEN <<"Computer Science", "Engineering", "Mathematics">>
         ELSE <<>>
    ELSE IF IsPrefix(<<"S", "T", "A", "T">>, code)
    THEN IF CourseNumber(code) \in {312, 313, 321}
         THEN <<"Computer Science", "Engineering">>
         ELSE <<>>
    ELSE <<>>

\* coursecatalog_scraper.py _get_required_majors(course_code, department);
\* the tests 'Computer Science' in department, 'Math' in department and
\* 'Stat' in department pick one department name each
universal_get_required_majors(code, department) ==
    IF department = "Computer Science" \/ IsInfix(<<"C", "S">>, code)
    THEN IF CourseNumber(code) < 400
         THEN <<"Computer Science", "Software Engineering">>
         ELSE <<"Computer Science">>
    ELSE IF department = "Mathematics"
    THEN <<"Computer Science", "Engineering", "Mathematics">>
    ELSE IF department = "Statistics"
    THEN <<"Computer Science", "Engineering", "Statistics">>
    ELSE <<>>

\* CalPolyCourseScraper: _parse_course_block, then course_to_dynamodb_item
calpoly_item(b) ==
    [university_course_id |-> CalPolyId(BlockCode(b)),
     university |-> "Cal Poly San Luis Obispo",
     department |-> DepartmentName(b.dept),
     course_code |-> BlockCode(b),
     units |-> BlockUnits(b, 4),
     difficulty_level |-> calpoly_determine_difficulty(BlockCode(b)),
     required_for_majors |-> calpoly_get_required_majors(BlockCode(b))]

\* UniversalCourseCatalogScraper set to 'cal_poly': _parse_course_block,
\* then course_to_dynamodb_item
universal_item(b) ==
    [university_course_id |-> CatalogId(BlockCode(b)),
     university |-> "Cal Poly San Luis Obispo",
     department |-> DepartmentName(b.dept),
     course_code |-> BlockCode(b),
     units |-> BlockUnits(b, 4),
     difficulty_level |-> universal_determine_difficulty(BlockCode(b)),
     required_for_majors |-> universal_get_required_majors(BlockCode(b), DepartmentName(b.dept))]

\* the item as the shared table keeps it
Stored(item, now) == [key |-> item.university_course_id, record |-> item, last_updated |-> now]

ConverterIdle == block = NoBlock /\ items = NoItems

(***************************************************************************)
(* A scraper run as a state machine: the list, one pass per item, then the *)
(* save loop, one pass per record.                                         *)
(***************************************************************************)
\* no invocation in progress
HandlerIdle ==
    /\ event = NoEvent
    /\ env = NoEnv
    /\ response = NoResponse
    /\ access = NoAccess
    /\ hpc = "idle"

NoRequest == [given |-> FALSE, list |-> <<>>]

RunNotStarted ==
    /\ queue = <<>>
    /\ successful = <<>>
    /\ failed = <<>>
    /\ trace = <<>>
    /\ records = <<>>
    /\ pending = <<>>
    /\ puts = <<>>
    /\ counts = Counts(0, 0)
    /\ table = {}
    /\ firstKeys = {}

ScraperIdle ==
    /\ scraper = "none"
    /\ requested = NoRequest
    /\ RunNotStarted
    /\ pass = 0
    /\ spc = "off"

DetectorIdle == text = <<>> /\ result = NoResult /\ dpc = "off"

InitScrape ==
    /\ scraper \in Scrapers
    /\ requested \in Requests
    /\ RunNotStarted
    /\ pass = 1
    /\ spc = "start"
    /\ DetectorIdle
    /\ users = EmptyStore
    /\ HandlerIdle
    /\ MigrationIdle
    /\ ParserIdle
    /\ RequestsIdle
    /\ ConverterIdle

\* the run settles the list it will loop over
StartRun ==
    /\ spc = "start"
    /\ queue' = Planned(scraper, requested)
    /\ spc' = "scrape"
    /\ UNCHANGED <<scraper, requested, successful, failed, trace, records,
                   pending, puts, counts, table, pass, firstKeys, dvars, hvars, mvars, pvars, cvars>>

\* one pass of the loop over departments or majors
ScrapeItem ==
    /\ spc = "scrape"
    /\ queue # <<>>
    /\ \E out \in Outcomes :
        LET l == Iteration(scraper, Loop(successful, failed, trace, records),
                           Head(queue), out)
        IN  /\ successful' = l.successful
            /\ failed' = l.failed
            /\ trace' = l.trace
            /\ records' = l.records
    /\ queue' = Tail(queue)
    /\ UNCHANGED <<scraper, requested, pending, puts, counts, table, pass,
                   firstKeys, spc, dvars, hvars, mvars, pvars, cvars>>

\* after the loop: the save loop runs only when something was collected
EndOfLoop ==
    /\ spc = "scrape"
    /\ queue = <<>>
    /\ pending' = records
    /\ spc' = IF records # <<>> THEN "save" ELSE "done"
    /\ UNCHANGED <<scraper, requested, queue, successful, failed, trace, records,
                   puts, counts, table, pass, firstKeys, dvars, hvars, mvars, pvars, cvars>>

\* one pass of the save loop
SaveRecord ==
    /\ spc = "save"
    /\ pending # <<>>
    /\ \E outcome \in WriteOutcomes :
        /\ puts' = Append(puts, [record |-> Head(pending), outcome |-> outcome])
        /\ counts' = CountWrite(counts, outcome)
        /\ table' = IF outcome = "ok"
                    THEN TablePut(table, StoreItem(scraper, Head(pending), pass))
                    ELSE table
    /\ pending' = Tail(pending)
    /\ UNCHANGED <<scraper, requested, queue, successful, failed, trace, records,
                   pass, firstKeys, spc, dvars, hvars, mvars, pvars, cvars>>

\* the save loop ends; the counts go into the results
EndOfSave ==
    /\ spc = "save"
    /\ pending = <<>>
    /\ spc' = "done"
    /\ UNCHANGED <<scraper, requested, queue, successful, failed, trace, records,
                   pending, puts, counts, table, pass, firstKeys, dvars, hvars, mvars, pvars, cvars>>

NextScrape == StartRun \/ ScrapeItem \/ EndOfLoop \/ SaveRecord \/ EndOfSave

SpecScrape == InitScrape /\ [][NextScrape]_vars

(***************************************************************************)
(* Saving the same scraped records twice: the save loop of a scraper runs  *)
(* over a list of records, and then once more over the same list.          *)
(***************************************************************************)
MaxRecords == 2      \* most records in the list that is saved twice

\* the records a scraper may have collected: courses, or one record a major
ScrapedRecords(sc) ==
    IF IsCatalog(sc)
    THEN [item : Names, k : DOMAIN NumberText]
    ELSE [item : Names, k : {1}]

InitResave ==
    /\ scraper \in Scrapers
    /\ records \in UNION {[1..n -> ScrapedRecords(scraper)] : n \in 1..MaxRecords}
    /\ pending = records
    /\ requested = NoRequest
    /\ queue = <<>> /\ successful = <<>> /\ failed = <<>> /\ trace = <<>>
    /\ puts = <<>>
    /\ counts = Counts(0, 0)
    /\ table = {}
    /\ firstKeys = {}
    /\ pass = 1
    /\ spc = "save"
    /\ DetectorIdle
    /\ users = EmptyStore
    /\ HandlerIdle
    /\ MigrationIdle
    /\ ParserIdle
    /\ RequestsIdle
    /\ ConverterIdle

\* the save is run again on the same records
SaveAgain ==
    /\ spc = "done"
    /\ pass = 1
    /\ firstKeys' = Keys(table)
    /\ pending' = records
    /\ puts' = <<>>
    /\ counts' = Counts(0, 0)
    /\ pass' = 2
    /\ spc' = "save"
    /\ UNCHANGED <<scraper, requested, queue, successful, failed, trace, records,
                   table, dvars, hvars, mvars, pvars, cvars>>

NextResave == SaveRecord \/ EndOfSave \/ SaveAgain

SpecResave == InitResave /\ [][NextResave]_vars

(***************************************************************************)
(* The profile handler as a state machine: a table, then invocations.      *)
(***************************************************************************)
InitHandler ==
    /\ users \in Stores
    /\ HandlerIdle
    /\ MigrationIdle
    /\ ParserIdle
    /\ RequestsIdle
    /\ ConverterIdle
    /\ DetectorIdle
    /\ ScraperIdle

\* an event arrives, in an environment the invocation will meet
Invoke ==
    /\ hpc = "idle"
    /\ event' \in Events
    /\ env' \in Envs
    /\ hpc' = "invoked"
    /\ UNCHANGED <<users, response, access, dvars, svars, mvars, pvars, cvars>>

\* lambda_handler(event, context) runs to its end
LambdaHandler ==
    /\ hpc = "invoked"
    /\ LET out == lambda_handler(event, users, env)
       IN  /\ response' = [kind |-> out.kind, statusCode |-> out.statusCode,
                           body |-> out.body]
           /\ users' = out.st.users
           /\ access' = [reads |-> out.st.reads, writes |-> out.st.writes]
    /\ hpc' = "responded"
    /\ UNCHANGED <<event, env, dvars, svars, mvars, pvars, cvars>>

\* the response is delivered; the function waits for the next event
Deliver ==
    /\ hpc = "responded"
    /\ event' = NoEvent
    /\ env' = NoEnv
    /\ response' = NoResponse
    /\ access' = NoAccess
    /\ hpc' = "idle"
    /\ UNCHANGED <<users, dvars, svars, mvars, pvars, cvars>>

NextHandler == Invoke \/ LambdaHandler \/ Deliver

SpecHandler == InitHandler /\ [][NextHandler]_vars

(***************************************************************************)
(* The classifier as a state machine: a text, then the call.               *)
(***************************************************************************)
InitDetect ==
    /\ text \in Texts
    /\ result = NoResult
    /\ dpc = "ready"
    /\ users = EmptyStore
    /\ HandlerIdle
    /\ MigrationIdle
    /\ ParserIdle
    /\ RequestsIdle
    /\ ConverterIdle
    /\ ScraperIdle

DetectRequirementType ==
    /\ dpc = "ready"
    /\ result' = detect_requirement_type(text)
    /\ dpc' = "done"
    /\ UNCHANGED <<text, hvars, svars, mvars, pvars, cvars>>

NextDetect == DetectRequirementType

SpecDetect == InitDetect /\ [][NextDetect]_vars

(***************************************************************************)
(* The migration script, the cleanup and the Cognito handler as a state    *)
(* machine over the users table.  The script's runs and the handler's      *)
(* requests follow one another; the items of a run are put one at a time.  *)
(***************************************************************************)
InitMigrate ==
    /\ utable \in OldTables
    /\ plan = {}
    /\ answer = NoAnswer
    /\ lookup_failed = {}
    /\ failed_migrations = 0
    /\ before = NoUsers
    /\ deletes = {}
    /\ cstatus = 0
    /\ runs = 0
    /\ mpc = "idle"
    /\ DetectorIdle
    /\ users = EmptyStore /\ event = NoEvent /\ env = NoEnv
    /\ response = NoResponse /\ access = NoAccess /\ hpc = "idle"
    /\ ScraperIdle
    /\ ParserIdle
    /\ RequestsIdle
    /\ ConverterIdle

MaxRuns == 3         \* most runs of the scripts and requests to the handler

\* neither script is running and another run may start
Resting == mpc = "idle" /\ runs < MaxRuns

\* migrate_users_to_cognito_sub: the scan and the plan, up to the prompt
MigrateScan ==
    /\ Resting
    /\ \E raising \in {{}} \cup {{utable[id].email} : id \in {i \in Scan(utable) : utable[i].email # Absent}} :
        /\ plan' = MigrationPlan(utable, raising)
        /\ lookup_failed' = raising
    /\ before' = utable
    /\ answer' = NoAnswer
    /\ failed_migrations' = 0
    /\ deletes' = {}
    /\ mpc' = "confirm"
    /\ runs' = runs + 1
    /\ UNCHANGED <<utable, cstatus, dvars, hvars, svars, pvars, cvars>>

\* the operator answers the prompt of the migration
MigrateAnswer ==
    /\ mpc = "confirm"
    /\ \E confirm \in Answers :
        /\ answer' = confirm
        /\ mpc' = IF MigrationConfirmed(confirm) THEN "execute" ELSE "cancelled"
    /\ UNCHANGED <<utable, plan, lookup_failed, failed_migrations, before, deletes,
                   cstatus, runs, dvars, hvars, svars, pvars, cvars>>

\* execute_migration: one entry of the plan, in the order the scan gave
MigrateItem ==
    /\ mpc = "execute"
    /\ \E entry \in plan, outcome \in {"ok", "Exception"} :
        /\ plan' = plan \ {entry}
        /\ IF outcome = "ok"
           THEN /\ utable' = [utable EXCEPT ![entry.new_user_id] = MigratedRecord(entry)]
                /\ UNCHANGED failed_migrations
           ELSE /\ failed_migrations' = failed_migrations + 1
                /\ UNCHANGED utable
    /\ UNCHANGED <<answer, lookup_failed, before, deletes, cstatus, runs, mpc,
                   dvars, hvars, svars, pvars, cvars>>

\* execute_migration returns
MigrateEnd ==
    /\ mpc = "execute"
    /\ plan = {}
    /\ mpc' = "migrated"
    /\ UNCHANGED <<utable, plan, answer, lookup_failed, failed_migrations, before,
                   deletes, cstatus, runs, dvars, hvars, svars, pvars, cvars>>

\* cleanup_old_records: the prompt, the answer and the filtered scan
CleanupAnswer ==
    /\ Resting
    /\ \E confirm \in Answers :
        /\ answer' = confirm
        /\ IF CleanupConfirmed(confirm)
           THEN deletes' = CleanupKeys(utable) /\ mpc' = "cleanup"
           ELSE deletes' = {} /\ mpc' = "cancelled"
    /\ before' = utable
    /\ plan' = {}
    /\ lookup_failed' = {}
    /\ failed_migrations' = 0
    /\ runs' = runs + 1
    /\ UNCHANGED <<utable, cstatus, dvars, hvars, svars, pvars, cvars>>

\* batch.delete_item(Key={'user_id': old_user_id})
CleanupDelete ==
    /\ mpc = "cleanup"
    /\ \E key \in deletes :
        /\ deletes' = deletes \ {key}
        /\ utable' = [utable EXCEPT ![key] = NoRecord]
    /\ UNCHANGED <<plan, answer, lookup_failed, failed_migrations, before, cstatus,
                   runs, mpc, dvars, hvars, svars, pvars, cvars>>

CleanupEnd ==
    /\ mpc = "cleanup"
    /\ deletes = {}
    /\ mpc' = "cleaned"
    /\ UNCHANGED <<utable, plan, answer, lookup_failed, failed_migrations, before,
                   deletes, cstatus, runs, dvars, hvars, svars, pvars, cvars>>

\* a request to the Cognito handler, between runs of the script
CognitoRequest ==
    /\ Resting
    /\ \E sub \in Subs \cup {NoSub}, method \in CognitoMethods :
        \E body \in IF method = "PUT" /\ sub # NoSub THEN PutBodies ELSE {NotJson} :
            LET out == cognito_handler(utable, sub, method, body)
            IN  /\ utable' = out.utable
                /\ cstatus' = out.status
    /\ runs' = runs + 1
    /\ mpc' = "responded"
    /\ UNCHANGED <<plan, answer, lookup_failed, failed_migrations, before, deletes,
                   dvars, hvars, svars, pvars, cvars>>

\* the script has returned, or the response has been delivered
ReturnToShell ==
    /\ mpc \in {"cancelled", "migrated", "cleaned", "responded"}
    /\ plan' = {}
    /\ answer' = NoAnswer
    /\ lookup_failed' = {}
    /\ failed_migrations' = 0
    /\ before' = NoUsers
    /\ deletes' = {}
    /\ cstatus' = 0
    /\ mpc' = "idle"
    /\ UNCHANGED <<utable, runs, dvars, hvars, svars, pvars, cvars>>

NextMigrate ==
    \/ MigrateScan
    \/ MigrateAnswer
    \/ MigrateItem
    \/ MigrateEnd
    \/ CleanupAnswer
    \/ CleanupDelete
    \/ CleanupEnd
    \/ CognitoRequest
    \/ ReturnToShell

SpecMigrate == InitMigrate /\ [][NextMigrate]_vars

(***************************************************************************)
(* The flowchart parser as a state machine: a downloaded content, the      *)
(* parse, and the list the scraper puts the major on.                      *)
(***************************************************************************)
InitParse ==
    /\ document \in Documents
    /\ flowchart = NoFlowchart
    /\ ppc = "ready"
    /\ DetectorIdle
    /\ users = EmptyStore /\ event = NoEvent /\ env = NoEnv
    /\ response = NoResponse /\ access = NoAccess /\ hpc = "idle"
    /\ ScraperIdle
    /\ MigrationIdle
    /\ RequestsIdle
    /\ ConverterIdle

\* flowchart = parser.parse_flowchart(response.content, major)
ParseFlowchart ==
    /\ ppc = "ready"
    /\ flowchart' = parse_flowchart(document)
    /\ ppc' = "parsed"
    /\ UNCHANGED <<document, dvars, hvars, svars, mvars, cvars>>

\* if flowchart: successful_majors, else failed_majors
ReportMajor ==
    /\ ppc = "parsed"
    /\ ppc' = IF flowchart # NoFlowchart THEN "successful" ELSE "failed"
    /\ UNCHANGED <<document, flowchart, dvars, hvars, svars, mvars, cvars>>

NextParse == ParseFlowchart \/ ReportMajor

SpecParse == InitParse /\ [][NextParse]_vars

(***************************************************************************)
(* Concurrent requests to the Cognito handler as a state machine: every    *)
(* step is one store call of one request.                                  *)
(***************************************************************************)
MaxRequests == 2     \* requests of the user that run at the same time

InitCognito ==
    /\ creqs \in {[r \in 1..MaxRequests |-> NewCall(f[r])] : f \in [1..MaxRequests -> CognitoCalls]}
    /\ utable \in {NoUsers, [NoUsers EXCEPT ![TheUser] = UserRecord("a@x", "p1", Absent)]}
    /\ plan = {}
    /\ answer = NoAnswer
    /\ lookup_failed = {}
    /\ failed_migrations = 0
    /\ before = NoUsers
    /\ deletes = {}
    /\ cstatus = 0
    /\ runs = 0
    /\ mpc = "off"
    /\ DetectorIdle
    /\ users = EmptyStore /\ event = NoEvent /\ env = NoEnv
    /\ response = NoResponse /\ access = NoAccess /\ hpc = "idle"
    /\ ScraperIdle
    /\ ParserIdle
    /\ ConverterIdle

\* update_user_profile: json.loads, then update_item, then get_user_profile
UpdateItemStep ==
    \E r \in DOMAIN creqs :
        /\ creqs[r].pc = "update"
        /\ IF creqs[r].body.kind # "json"
           THEN /\ creqs' = [creqs EXCEPT ![r].pc = "done", ![r].status = 400]
                /\ UNCHANGED utable
           ELSE /\ utable' = [utable EXCEPT ![TheUser] = Upsert(utable[TheUser], creqs[r].body)]
                /\ creqs' = [creqs EXCEPT ![r].pc = "get"]
        /\ UNCHANGED <<plan, answer, lookup_failed, failed_migrations, before, deletes,
                       cstatus, runs, mpc, block, items, dvars, hvars, svars, pvars>>

\* get_user_profile: get_item, and the answer when the item is there
GetItemStep ==
    \E r \in DOMAIN creqs :
        /\ creqs[r].pc = "get"
        /\ creqs' = IF utable[TheUser].exists
                    THEN [creqs EXCEPT ![r].pc = "done", ![r].status = 200]
                    ELSE [creqs EXCEPT ![r].pc = "missing"]
        /\ UNCHANGED <<utable, plan, answer, lookup_failed, failed_migrations, before,
                       deletes, cstatus, runs, mpc, block, items, dvars, hvars, svars, pvars>>

\* get_user_profile: the item was not there; the token is read again and
\* the new user is put
PutNewUserStep ==
    \E r \in DOMAIN creqs, token_ok \in BOOLEAN :
        /\ creqs[r].pc = "missing"
        /\ IF ~token_ok
           THEN /\ creqs' = [creqs EXCEPT ![r].pc = "done", ![r].status = 404]
                /\ UNCHANGED utable
           ELSE IF Serializes(NewUser(TheUser))
           THEN /\ utable' = [utable EXCEPT ![TheUser] = NewUser(TheUser)]
                /\ creqs' = [creqs EXCEPT ![r].pc = "done", ![r].status = 201]
           ELSE /\ creqs' = [creqs EXCEPT ![r].pc = "done", ![r].status = 500]
                /\ UNCHANGED utable
        /\ UNCHANGED <<plan, answer, lookup_failed, failed_migrations, before, deletes,
                       cstatus, runs, mpc, block, items, dvars, hvars, svars, pvars>>

NextCognito == UpdateItemStep \/ GetItemStep \/ PutNewUserStep

SpecCognito == InitCognito /\ [][NextCognito]_vars

(***************************************************************************)
(* The two catalog scrapers on one course block: both convert it, then     *)
(* each puts its item in the table college-hq-course-catalog.              *)
(***************************************************************************)
InitConvert ==
    /\ block \in Blocks
    /\ items = NoItems
    /\ DetectorIdle
    /\ users = EmptyStore /\ event = NoEvent /\ env = NoEnv
    /\ response = NoResponse /\ access = NoAccess /\ hpc = "idle"
    /\ ScraperIdle
    /\ MigrationIdle
    /\ ParserIdle
    /\ RequestsIdle

\* both scrapers parse the block and build their item
ConvertBlock ==
    /\ items = NoItems
    /\ items' = <<calpoly_item(block), universal_item(block)>>
    /\ UNCHANGED <<block, creqs, dvars, hvars, svars, mvars, pvars>>

\* one of the scrapers saves its item
SaveItem ==
    /\ items # NoItems
    /\ \E i \in DOMAIN items :
        /\ Stored(items[i], 1) \notin table
        /\ table' = TablePut(table, Stored(items[i], 1))
    /\ UNCHANGED <<block, items, creqs, scraper, requested, queue, successful, failed,
                   trace, records, pending, puts, counts, pass, firstKeys, spc,
                   dvars, hvars, mvars, pvars>>

NextConvert == ConvertBlock \/ SaveItem

SpecConvert == InitConvert /\ [][NextConvert]_vars

(***************************************************************************)
(* Properties of the classifier.                                           *)
(***************************************************************************)
Families ==
    <<choice_patterns, alternative_patterns, sequence_patterns,
      category_patterns, units_patterns>>

Tags ==
    {"choose_exact", "choose_minimum", "alternative", "sequence",
     "category_based", "choose_units", "required_all"}

\* the family a tag belongs to, in the order of the families; 6: the default
FamilyOf(tag) ==
    CASE tag \in {"choose_exact", "choose_minimum"} -> 1
      [] tag = "alternative"    -> 2
      [] tag = "sequence"       -> 3
      [] tag = "category_based" -> 4
      [] tag = "choose_units"   -> 5
      [] OTHER                  -> 6

\* the families with a pattern that matches the text, letter case ignored
FamiliesMatching(t) ==
    {f \in DOMAIN Families :
        \E k \in DOMAIN Families[f] : ISearch(Families[f][k], TextChars(t))}

\* C1: the returned tag belongs to the first family, in the order choice,
\* alternative, sequence, category, units, that has a pattern matching the
\* text; a text matching an earlier and a later family gets the earlier one.
C1_FirstFamilyWins ==
    dpc = "done" =>
        \A f \in FamiliesMatching(text) :
            (\A g \in FamiliesMatching(text) : f <= g) => FamilyOf(result.type) = f

\* C2: the detector returns exactly one of the seven tags, and the default
\* tag required_all (detected_pattern "default") exactly when no pattern of
\* any family matches the text.
C2_TotalWithDefault ==
    dpc = "done" =>
        /\ result.type \in Tags
        /\ (result.type = "required_all") = (result.detected_pattern = "default")
        /\ (result.type = "required_all") = (FamiliesMatching(text) = {})

\* C3: the returned parameters are the numbers captured by the winning
\* pattern.  A choice match with count N gives courses_required =
\* selection_count = N, tagged choose_exact when N > 1 and choose_minimum
\* otherwise; "one of the following" gives N = 1; a units match gives the
\* first captured number, the lower bound when the range pattern wins.
C3_CapturedParameters ==
    dpc = "done" =>
        LET s  == SearchedText(text)
            ch == Matching(choice_patterns, s)
            un == Matching(units_patterns, s)
        IN  /\ result.type \in {"choose_exact", "choose_minimum"} =>
                \E k \in ch :
                    /\ \A j \in ch : k <= j
                    /\ LET p == choice_patterns[k]
                           N == IF p.cap = 0 THEN 1 ELSE IntOf(Group1(p, s))
                       IN  /\ result.courses_required = N
                           /\ result.selection_count = N
                           /\ (result.type = "choose_exact") = (N > 1)
                           /\ result.detected_pattern = p.name
            /\ result.type = "choose_units" =>
                \E k \in un :
                    /\ \A j \in un : k <= j
                    /\ result.units_required = IntOf(Group1(units_patterns[k], s))
            /\ text = <<"One", "of", "the", "following">> =>
                result.type = "choose_minimum" /\ result.courses_required = 1
            /\ text = <<"3", "of", "the", "following">> =>
                result.type = "choose_exact" /\ result.courses_required = 3
            /\ text = <<"12-16", "units">> =>
                result.type = "choose_units" /\ result.units_required = 12
            /\ text = <<"12-16", "units", "of">> =>
                result.type = "choose_units" /\ result.units_required = 16

\* the count-less pattern won and gave a count of one
C3_Witness ==
    /\ dpc = "done"
    /\ text = <<"One", "of", "the", "following">>
    /\ result.detected_pattern = "choice6"
    /\ result.selection_count = 1

(***************************************************************************)
(* Properties of the profile handler.                                      *)
(***************************************************************************)
\* the request carries a token the identity provider's keys verify
Authenticated(ev, e) ==
    /\ ev.headers.scheme = "Bearer"
    /\ ev.headers.token.form = "jwt"
    /\ ev.headers.token.kid \in JwksKeys
    /\ ev.headers.token.valid
    /\ e.jwks = "ok"

\* the token is missing, not a Bearer token, names an unpublished key or
\* does not pass verification
Rejected(ev) ==
    \/ ev.headers.scheme # "Bearer"
    \/ ev.headers.token.form # "jwt"
    \/ ev.headers.token.kid \notin JwksKeys
    \/ ~ev.headers.token.valid

Statuses == {200, 201, 400, 401, 404, 409, 500}

\* a request body json.loads accepts, and a table that answers every call
WellFormed(ev, e) == ev.body.kind \in {"missing", "json"} /\ e.failAt = 0

IsPostProfile(ev) == ev.httpMethod = "POST" /\ ev.path = "/api/users/profile"

\* C4: a request whose token is missing, is not a Bearer token, names a key
\* the identity provider does not publish or fails verification is answered
\* 401 Unauthorized, and the invocation makes no read and no write of the
\* users table.
C4_UnauthenticatedIsRefused ==
    (hpc = "responded" /\ Rejected(event)) =>
        /\ response.kind = "return"
        /\ response.statusCode = 401
        /\ response.body = Dumps(Error("Unauthorized"))
        /\ access = NoAccess

\* a GET for a stored profile with a token signed by an unpublished key
C4_Witness ==
    /\ hpc = "responded"
    /\ event.httpMethod = "GET" /\ event.path = "/api/users/me"
    /\ event.headers.scheme = "Bearer"
    /\ event.headers.token.form = "jwt"
    /\ event.headers.token.kid = "k9"
    /\ event.headers.token.valid
    /\ users[event.headers.token.sub] # NoItem
    /\ response.statusCode = 401
    /\ access = NoAccess

\* C8: whatever the event, the key-set endpoint and the table do, the handler
\* ends by returning a response whose status is 200, 201, 400, 401, 404, 409
\* or 500 and whose body is JSON text; no exception leaves it.
C8_AlwaysAResponse ==
    hpc = "responded" =>
        /\ response.kind = "return"
        /\ response.statusCode \in Statuses
        /\ \E value \in {response.body.json} : response.body = Dumps(value)

\* json.loads(None) raises TypeError inside update_user_profile
C8_Witness ==
    /\ hpc = "responded"
    /\ Authenticated(event, env)
    /\ event.httpMethod = "PUT" /\ event.path = "/api/users/me"
    /\ event.body.kind = "none"
    /\ response.kind = "return"
    /\ response.statusCode = 500
    /\ response.body = Dumps(Error("Internal server error"))

\* C9: a POST /api/users/profile by an authenticated user without a stored
\* profile stores the initial profile under the user's sub and answers 201
\* with that profile.
C9_PostCreatesProfile ==
    [][(/\ hpc = "invoked" /\ hpc' = "responded"
        /\ IsPostProfile(event) /\ Authenticated(event, env)
        /\ WellFormed(event, env)
        /\ users[event.headers.token.sub] = NoItem)
       => LET sub == event.headers.token.sub
          IN  /\ response'.statusCode = 201
              /\ users'[sub] # NoItem
              /\ users'[sub].userId = sub
              /\ response'.body = Dumps(users'[sub])]_vars

\* C10: a POST /api/users/profile by an authenticated user who has a stored
\* profile is answered 409 and the table is left as it was.
C10_PostExistingConflicts ==
    [][(/\ hpc = "invoked" /\ hpc' = "responded"
        /\ IsPostProfile(event) /\ Authenticated(event, env)
        /\ WellFormed(event, env)
        /\ users[event.headers.token.sub] # NoItem)
       => (response'.statusCode = 409 /\ users' = users)]_vars

IsGetMe(ev) == ev.httpMethod = "GET" /\ ev.path = "/api/users/me"

IsPutMe(ev) == ev.httpMethod = "PUT" /\ ev.path = "/api/users/me"

\* the fields of a stored item a profile response carries
ProfileView(item) ==
    [firstName |-> item.firstName, email |-> item.email, major |-> item.major,
     gpa |-> item.gpa, completedCourses |-> item.completedCourses]

\* C11: a GET /api/users/me by an authenticated user is answered 200 with the
\* stored profile when an item is stored under the token's sub and 404
\* 'Profile not found' when none is, and the table is left as it was.
C11_GetReturnsStoredProfile ==
    [][(/\ hpc = "invoked" /\ hpc' = "responded"
        /\ IsGetMe(event) /\ Authenticated(event, env)
        /\ env.failAt = 0)
       => LET item == users[event.headers.token.sub]
          IN  /\ users' = users
              /\ IF item = NoItem
                 THEN /\ response'.statusCode = 404
                      /\ response'.body = Dumps(Error("Profile not found"))
                 ELSE /\ response'.statusCode = 200
                      /\ response'.body = Dumps(ProfileView(item))]_vars

\* C12: a PUT /api/users/me by an authenticated user with a JSON body is
\* answered 200 with the updated profile, and afterwards an item is stored
\* under the token's sub, whether or not one was stored before.
C12_PutUpdatesOrCreates ==
    [][(/\ hpc = "invoked" /\ hpc' = "responded"
        /\ IsPutMe(event) /\ Authenticated(event, env)
        /\ WellFormed(event, env))
       => LET sub == event.headers.token.sub
          IN  /\ response'.statusCode = 200
              /\ users'[sub] # NoItem
              /\ response'.body = Dumps(ProfileView(users'[sub]))]_vars

IsRoute(ev) == IsGetMe(ev) \/ IsPutMe(ev) \/ IsPostProfile(ev)

\* C19: an authenticated request whose method and path are not GET
\* /api/users/me, PUT /api/users/me or POST /api/users/profile is answered
\* 404 'Endpoint not found' and makes no read and no write of the table.
C19_UnknownRouteNotFound ==
    (hpc = "responded" /\ Authenticated(event, env) /\ ~IsRoute(event)) =>
        /\ response.statusCode = 404
        /\ response.body = Dumps(Error("Endpoint not found"))
        /\ access = NoAccess

(***************************************************************************)
(* Properties of the scraper runs.                                         *)
(***************************************************************************)
\* the departments or majors a run was asked for; asking for none in
\* particular is asking for every key of the table
RequestedNames ==
    IF requested.given /\ (IsCatalog(scraper) \/ Len(requested.list) > 0)
    THEN Range(requested.list)
    ELSE Range(TableOrder)

Occurrences(list, x) == Cardinality({i \in DOMAIN list : list[i] = x})

\* C5: when a run is over, every department or major it was asked for has
\* been fetched exactly once and stands exactly once in the successful and
\* failed lists taken together.
C5_EveryRequestedAttemptedOnce ==
    spc = "done" =>
        \A m \in RequestedNames :
            /\ Occurrences(trace, FetchOf(m)) = 1
            /\ Occurrences(successful, m) + Occurrences(failed, m) = 1

Outcome(i) == puts[i].outcome

\* C6: every record submitted to the save loop is written in turn and adds
\* one to exactly one of success_count and error_count, so the two add up to
\* the number of records submitted; a write that fails does not stop the
\* writes of the records after it.
C6_SaveCountsAddUp ==
    /\ counts.success_count + counts.error_count = Len(puts)
    /\ counts.success_count = Cardinality({i \in DOMAIN puts : Outcome(i) = "ok"})
    /\ spc \in {"save", "done"} => Len(puts) + Len(pending) = Len(records)
    /\ \A i \in DOMAIN puts : puts[i].record = records[i]
    /\ spc = "done" => Len(puts) = Len(records)

\* a run whose first write fails in a way that is not a ClientError and
\* whose second write succeeds
C6_Witness ==
    /\ spc = "done"
    /\ Len(records) = 2
    /\ Outcome(1) = "Exception"
    /\ Outcome(2) = "ok"
    /\ counts = Counts(1, 1)

\* C7: between two fetches of a run that follow each other there is a sleep
\* of two seconds, whether the earlier item succeeded or failed.
C7_SleepBetweenFetches ==
    \A i, j \in DOMAIN trace :
        (i < j /\ trace[i].op = "fetch" /\ trace[j].op = "fetch")
            => \E k \in (i + 1)..(j - 1) : trace[k] = Sleep(2)

\* the passes of the save loop whose put_item went through
Written == {i \in DOMAIN puts : Outcome(i) = "ok"}

\* C15: within one run no store key is written more than once, whatever the
\* list of departments or majors asked for and whatever the pages hold.
C15_NoKeyWrittenTwice ==
    \A i, j \in Written :
        i # j => StoreKey(scraper, puts[i].record) # StoreKey(scraper, puts[j].record)

KeysOf(sc, recs) == {StoreKey(sc, recs[i]) : i \in DOMAIN recs}

\* C14: the key of a stored item is fixed by the scraper's university and the
\* record's course code or major; the table holds one item per key; and when
\* the first save stored every record, saving the same records again leaves
\* the table with exactly the keys it had.
C14_ResaveKeepsKeys ==
    /\ \A x \in table : x.key = StoreKey(scraper, x.record)
    /\ \A x, y \in table : x.key = y.key => x = y
    /\ Keys(table) \subseteq KeysOf(scraper, records)
    /\ (pass = 2 /\ firstKeys = KeysOf(scraper, records)) => Keys(table) = firstKeys

\* two course records saved twice, every item now carrying the second time
C14_Witness ==
    /\ spc = "done"
    /\ pass = 2
    /\ scraper = "coursecatalog"
    /\ Len(records) = 2
    /\ records[1] # records[2]
    /\ firstKeys = KeysOf(scraper, records)
    /\ Cardinality(table) = 2
    /\ \A x \in table : x.last_updated = 2

(***************************************************************************)
(* Properties of the migration.                                            *)
(***************************************************************************)
Yes == <<"y", "e", "s">>

\* the records the run's scan found with the email of a Cognito user
Migratable == {id \in Scan(before) : before[id].email # Absent /\ CognitoSub[before[id].email] # NoSub}

\* C16: when a confirmed run has ended with every lookup and every put done,
\* each record it found with the email of a Cognito user is still there, and
\* the record under that user's sub has its data and names it in migrated_from.
C16_MigratedRecordsUnderSub ==
    (mpc = "migrated" /\ failed_migrations = 0 /\ lookup_failed = {}) =>
        \A id \in Migratable :
            LET sub == CognitoSub[before[id].email]
            IN  /\ utable[id].exists
                /\ utable[sub].exists
                /\ utable[sub].email = before[id].email
                /\ utable[sub].profile = before[id].profile
                /\ utable[sub].migrated_from = id

\* C17: the migration writes only after an answer that reads yes, the cleanup
\* deletes only after the answer DELETE, and a script that ends on another
\* answer leaves the table as it found it.
C17_ChangesNeedConfirmation ==
    [][/\ (mpc \in {"confirm", "execute"} /\ utable' # utable) => LowerWord(answer) = Yes
       /\ (mpc = "cleanup" /\ utable' # utable) => answer = <<"D", "E", "L", "E", "T", "E">>
       /\ mpc' = "cancelled" => utable' = before']_vars

\* the cleanup refused on the answer delete although a migrated record names
\* a stored record
C17_Witness ==
    /\ mpc = "cancelled"
    /\ answer = <<"d", "e", "l", "e", "t", "e">>
    /\ CleanupKeys(utable) \cap Scan(utable) # {}
    /\ \E s \in Subs : utable[s].exists /\ utable[s].migrated_from \in OldIds

\* C18: no step of the scripts or of the handler removes a record stored
\* under a Cognito sub.
C18_SubRecordsNeverDeleted ==
    [][\A s \in Subs : utable[s].exists => utable'[s].exists]_vars

(***************************************************************************)
(* Properties of the flowchart parser.                                     *)
(***************************************************************************)
\* the content cannot be parsed the way its type asks for
ParsingFails(d) ==
    \/ d.content_type \notin {"pdf", "html", "json"}
    \/ d.content_type = "pdf" /\ ~d.PDFPLUMBER_SUPPORT /\ ~d.PDF_SUPPORT
    \/ ~d.readable
    \/ d.content_type \in {"pdf", "html"} /\ ~d.text_parses

\* C20: parse_flowchart returns a flowchart whatever the content, the
\* template of the major when the parse fails, and the scraper never lists
\* the major as failed.
C20_ParseNeverReturnsNone ==
    ppc \in {"parsed", "successful", "failed"} =>
        /\ flowchart # NoFlowchart
        /\ ParsingFails(document) => flowchart = create_template_flowchart(document.major)
        /\ ppc # "failed"

(***************************************************************************)
(* Properties of the concurrent requests.                                  *)
(***************************************************************************)
\* the PUT requests whose update_item has been made
Updating == {r \in DOMAIN creqs : creqs[r].method = "PUT" /\ creqs[r].body.kind = "json"
                                    /\ creqs[r].pc \in {"get", "missing", "done"}}

CompletedPuts == {r \in Updating : creqs[r].pc = "done"}

C22_SameRecordFromBothScrapers ==
    items # NoItems =>
        /\ items[1].university_course_id = items[2].university_course_id
        /\ items[1].difficulty_level = items[2].difficulty_level
        /\ items[1].units = items[2].units
        /\ items[1].required_for_majors = items[2].required_for_majors
        /\ Cardinality(table) <= 1

====
